---- MODULE Spec2Model ----
(***************************************************************************)
(* State-machine model of the listings app of alx_travel_app: the Listing, *)
(* Review and Booking tables (listings/models.py), the REST handlers of    *)
(* ListingViewSet, ReviewViewSet, BookingViewSet and ListingBookingsView   *)
(* (listings/views.py) with their serializer validation                    *)
(* (listings/serializers.py) and object permissions                        *)
(* (listings/permissions.py), and the change forms and bulk actions of the *)
(* admin site (listings/admin.py).                                         *)
(***************************************************************************)
EXTENDS Integers, FiniteSets, Sequences, TLC

\* ------------------------------------------------------------------ bounds

MaxUsers == 2
MaxListings == 1
MaxBookings == 2
MaxDate == 3
MaxGuests == 2
MaxPrice == 1
MaxPatchFields == 1
MaxRequests == 2
MaxReviewers == 3
MaxReviewListings == 2
MaxReviews == 3

Users == 1..MaxUsers
ListingIds == 1..MaxListings
BookingIds == 1..MaxBookings
Dates == 1..MaxDate
RequestIds == 1..MaxRequests
Reviewers == 1..MaxReviewers
ReviewListingIds == 1..MaxReviewListings
ReviewIds == 1..MaxReviews

\* ------------------------------------------------------------------ models.py

PENDING == "pending"
CONFIRMED == "confirmed"
CANCELLED == "cancelled"
COMPLETED == "completed"

BookingStatus == {PENDING, CONFIRMED, CANCELLED, COMPLETED}

\* HTTP methods that change nothing (rest_framework.permissions.SAFE_METHODS)
SAFE_METHODS == {"GET", "HEAD", "OPTIONS"}

VARIABLES
    listings,     \* the Listing table: live listing id -> row
    bookings,     \* the Booking table: live booking id -> row
    nextListing,  \* the next fresh Listing primary key
    nextBooking,  \* the next fresh Booking primary key
    inflight,     \* updates between get_object() and save(): request -> its instance
    reviews,      \* the Review table: live review id -> row
    nextReview    \* the next fresh Review primary key

vars == <<listings, bookings, nextListing, nextBooking, inflight, reviews, nextReview>>

\* on_delete=CASCADE of Booking.listing: the rows that survive the deletion of listing l
CascadeListing(l) ==
    LET keep == {i \in DOMAIN bookings : bookings[i].listing # l}
    IN  [i \in keep |-> bookings[i]]

\* on_delete=CASCADE of Review.listing: the rows that survive the deletion of listing l
CascadeListingReviews(l) ==
    LET keep == {i \in DOMAIN reviews : reviews[i].listing # l}
    IN  [i \in keep |-> reviews[i]]

\* Review.Meta.unique_together without the constraint: every write is let through
unique_together_Off(id, row) == TRUE

\* Review.Meta.unique_together = ['listing', 'reviewer']: the table refuses a write
\* that would leave row `id` sharing its (listing, reviewer) with another row
unique_together(id, row) ==
    \A i \in DOMAIN reviews \ {id} :
        ~(reviews[i].listing = row.listing /\ reviews[i].reviewer = row.reviewer)

\* Avg('rating') and count() add up over the rows of a queryset
RECURSIVE SumRatings(_)
SumRatings(rows) ==
    IF rows = {} THEN 0
    ELSE LET i == CHOOSE i \in rows : TRUE
         IN  reviews[i].rating + SumRatings(rows \ {i})

\* self.reviews without the is_active filter: every review of listing l
ActiveReviews_All(l) == {i \in DOMAIN reviews : reviews[i].listing = l}

\* self.reviews.filter(is_active=True)
ActiveReviews(l) ==
    {i \in DOMAIN reviews : reviews[i].listing = l /\ reviews[i].is_active}

\* round(num / den, 2), in hundredths: to the nearest hundredth, a tie to the even one
Round2(num, den) ==
    LET q == (100 * num) \div den
        r == (100 * num) % den
    IN  IF 2 * r > den \/ (2 * r = den /\ q % 2 = 1) THEN q + 1 ELSE q

\* Listing.average_rating, in hundredths: the aggregate is None over no rows, and
\* None or 0 gives 0.0
average_rating(l) ==
    LET rows == ActiveReviews(l)
    IN  IF rows = {} \/ SumRatings(rows) = 0 THEN 0
        ELSE Round2(SumRatings(rows), Cardinality(rows))

\* Listing.review_count
review_count(l) == Cardinality(ActiveReviews(l))

\* ------------------------------------------------------------------ serializers.py

\* the rating bounds of ReviewSerializer.validate_rating and of Review.rating
MinRating == 1
MaxRating == 5

\* ReviewSerializer.validate_rating
validate_rating(value) == ~(value < MinRating \/ value > MaxRating)

\* ReviewSerializer.is_valid(): listing and rating are required unless partial; the
\* listing lookup is over Listing.objects.all(); reviewer is read-only
review_is_valid(data, partial) ==
    /\ (partial \/ {"listing", "rating"} \subseteq DOMAIN data)
    /\ ("listing" \in DOMAIN data => data.listing \in DOMAIN listings)
    /\ ("rating" \in DOMAIN data => validate_rating(data.rating))

\* ModelSerializer.update on a Review: listing and rating are the writable fields
ApplyReviewData(row, data) ==
    [f \in DOMAIN row |->
        IF f \in DOMAIN data /\ f \in {"listing", "rating"} THEN data[f] ELSE row[f]]

\* BookingSerializer.Meta.fields, as far as the Booking row stores them
BookingFields ==
    {"listing", "guest", "check_in_date", "check_out_date", "num_guests", "total_price",
     "status"}

\* BookingSerializer.Meta.read_only_fields: dropped from every request body
read_only_fields == {"id", "guest", "created_at", "updated_at"}

\* fields a non-partial request must supply (no model default, not blank)
RequiredFields ==
    {"listing", "check_in_date", "check_out_date", "num_guests", "total_price"}

Has(data, f) == f \in DOMAIN data

\* BookingSerializer.validate_num_guests
validate_num_guests(value) == value > 0

\* BookingSerializer.validate_total_price
validate_total_price(value) == value > 0

\* the per-field pass of is_valid(): the PrimaryKeyRelatedField lookup of listing
\* (queryset Listing.objects.all()) and the validate_<field> callbacks
FieldErrors(data) ==
    (IF Has(data, "listing") /\ data.listing \notin DOMAIN listings
        THEN {"does_not_exist"} ELSE {})
    \cup (IF Has(data, "num_guests") /\ ~validate_num_guests(data.num_guests)
             THEN {"num_guests"} ELSE {})
    \cup (IF Has(data, "total_price") /\ ~validate_total_price(data.total_price)
             THEN {"total_price"} ELSE {})

\* validate with the capacity comparison off by one: a party that exactly fills the
\* listing is refused
validate_CapacityOffByOne(data) ==
    IF Has(data, "check_in_date") /\ Has(data, "check_out_date")
       /\ data.check_in_date >= data.check_out_date
    THEN "InvalidDateRange"
    ELSE IF Has(data, "listing") /\ Has(data, "num_guests")
            /\ data.num_guests >= listings[data.listing].max_guests
    THEN "GuestCapacityExceeded"
    ELSE "ok"

\* BookingSerializer.validate: the object-level pass, over the supplied fields only
validate(data) ==
    IF Has(data, "check_in_date") /\ Has(data, "check_out_date")
       /\ data.check_in_date >= data.check_out_date
    THEN "InvalidDateRange"
    ELSE IF Has(data, "listing") /\ Has(data, "num_guests")
            /\ data.num_guests > listings[data.listing].max_guests
    THEN "GuestCapacityExceeded"
    ELSE "ok"

\* serializer.is_valid(): required fields (unless partial), field pass, then validate()
is_valid(data, partial) ==
    /\ (partial \/ RequiredFields \subseteq DOMAIN data)
    /\ FieldErrors(data) = {}
    /\ validate(data) = "ok"

\* ModelSerializer.update: the supplied writable fields overwrite the row, the rest stay
ApplyData(row, data) ==
    [f \in DOMAIN row |->
        IF Has(data, f) /\ f \notin read_only_fields THEN data[f] ELSE row[f]]

\* ModelSerializer.create with save(guest=user): status falls back to the model default
NewBooking(user, data) ==
    [listing |-> data.listing,
     guest |-> user,
     check_in_date |-> data.check_in_date,
     check_out_date |-> data.check_out_date,
     num_guests |-> data.num_guests,
     total_price |-> data.total_price,
     status |-> IF Has(data, "status") THEN data.status ELSE PENDING]

\* ------------------------------------------------------------------ permissions.py

\* IsOwnerOrReadOnly.has_object_permission on a Listing
IsOwnerOrReadOnly(user, method, listing) ==
    method \in SAFE_METHODS \/ listing.host = user

\* IsOwnerOrReadOnly.has_object_permission on a Review
IsOwnerOrReadOnly_Review(user, method, review) ==
    method \in SAFE_METHODS \/ review.reviewer = user

\* IsBookingGuestOrHost without the SAFE_METHODS test: the host may write too
IsBookingGuestOrHost_HostWrites(user, method, obj) ==
    IF obj.guest = user THEN TRUE
    ELSE IF listings[obj.listing].host = user THEN TRUE
    ELSE FALSE

\* IsBookingGuestOrHost.has_object_permission
IsBookingGuestOrHost(user, method, obj) ==
    IF obj.guest = user THEN TRUE
    ELSE IF listings[obj.listing].host = user THEN method \in SAFE_METHODS
    ELSE FALSE

\* ------------------------------------------------------------------ requests

\* request bodies with every required field and no status ...
RequiredData ==
    [listing : ListingIds, check_in_date : Dates, check_out_date : Dates,
     num_guests : 0..MaxGuests, total_price : 0..MaxPrice]

\* ... and with a status
RequiredDataWithStatus ==
    [listing : ListingIds, check_in_date : Dates, check_out_date : Dates,
     num_guests : 0..MaxGuests, total_price : 0..MaxPrice, status : BookingStatus]

\* the bodies of POST and PUT requests
FullData == RequiredData \cup RequiredDataWithStatus

\* the fields of body d that a request naming only the fields S carries
Restrict(d, S) == [f \in S |-> d[f]]

\* PATCH bodies: any choice of at most MaxPatchFields fields
PatchData ==
    {Restrict(d, S) :
        d \in [listing : ListingIds, guest : Users, check_in_date : Dates,
               check_out_date : Dates, num_guests : 0..MaxGuests,
               total_price : 0..MaxPrice, status : BookingStatus],
        S \in {T \in SUBSET BookingFields : Cardinality(T) <= MaxPatchFields}}

\* ratings a request can carry: the bounds, their neighbours and a value in between
RatingInputs == {MinRating - 1, MinRating, MinRating + 1, MaxRating, MaxRating + 1}

\* the bodies of POST and PUT requests to the review endpoints
ReviewData == [listing : ReviewListingIds, rating : RatingInputs]

\* PATCH bodies to the review endpoints
ReviewPatchData ==
    {Restrict(d, S) : d \in ReviewData, S \in {{"listing"}, {"rating"}}}

\* ------------------------------------------------------------------ views.py

\* get_queryset without its filter: every booking is in every user's queryset
get_queryset_Unfiltered(user) == DOMAIN bookings

\* BookingViewSet.get_queryset: the bookings a user can address
get_queryset(user) ==
    {i \in DOMAIN bookings :
        bookings[i].guest = user \/ listings[bookings[i].listing].host = user}

\* get_object() and check_object_permissions(): 404 outside the queryset, 403 when
\* IsBookingGuestOrHost refuses, 0 when the request may proceed
BookingAccess(user, method, b) ==
    IF b \notin get_queryset(user) THEN 404
    ELSE IF ~IsBookingGuestOrHost(user, method, bookings[b]) THEN 403
    ELSE 0

\* GET /bookings/ (ListModelMixin.list): the bookings in the response
BookingList(user) == get_queryset(user)

\* GET /bookings/{id}/ (RetrieveModelMixin.retrieve): status of the response
RetrieveStatus(user, b) ==
    IF BookingAccess(user, "GET", b) # 0 THEN BookingAccess(user, "GET", b)
    ELSE 200

\* listing.bookings.all(): the bookings of listing l
listing_bookings(l) == {i \in DOMAIN bookings : bookings[i].listing = l}

\* ListingViewSet.bookings, GET /listings/{id}/bookings/: get_object() over the
\* active listings, then the host test; status of the response
ListingViewSet_bookings(user, l) ==
    IF l \notin DOMAIN listings \/ ~listings[l].is_active THEN 404
    ELSE IF user # listings[l].host THEN 403
    ELSE 200

\* ListingBookingsView.get: Listing.objects.get(id=listing_id, is_active=True), then
\* the host test; status of the response
ListingBookingsView_get(user, listing_id) ==
    IF listing_id \in DOMAIN listings /\ listings[listing_id].is_active
    THEN IF user # listings[listing_id].host THEN 403 ELSE 200
    ELSE 404

\* BookingViewSet.create (CreateModelMixin): status of the response
CreateStatus(user, data) ==
    IF is_valid(data, FALSE) THEN 201 ELSE 400

\* POST /bookings/ answered 201; perform_create: serializer.save(guest=request.user)
BookingCreate(user, data) ==
    /\ CreateStatus(user, data) = 201
    /\ bookings' = [i \in DOMAIN bookings \cup {nextBooking} |->
                       IF i = nextBooking THEN NewBooking(user, data) ELSE bookings[i]]
    /\ nextBooking' = nextBooking + 1
    /\ UNCHANGED <<listings, nextListing, inflight, reviews, nextReview>>

\* BookingViewSet.update / partial_update (UpdateModelMixin): status of the response
UpdateStatus(user, method, b, data) ==
    IF BookingAccess(user, method, b) # 0 THEN BookingAccess(user, method, b)
    ELSE IF ~is_valid(data, method = "PATCH") THEN 400
    ELSE 200

\* PUT /bookings/{id}/ answered 200; perform_update: serializer.save()
BookingUpdate(user, b, data) ==
    /\ UpdateStatus(user, "PUT", b, data) = 200
    /\ bookings' = [bookings EXCEPT ![b] = ApplyData(@, data)]
    /\ UNCHANGED <<listings, nextListing, nextBooking, inflight, reviews, nextReview>>

\* PATCH /bookings/{id}/ answered 200; perform_update: serializer.save()
BookingPartialUpdate(user, b, data) ==
    /\ UpdateStatus(user, "PATCH", b, data) = 200
    /\ bookings' = [bookings EXCEPT ![b] = ApplyData(@, data)]
    /\ UNCHANGED <<listings, nextListing, nextBooking, inflight, reviews, nextReview>>

\* The same handler as the database sees it, in its two statements. First
\* get_object() SELECTs the row and is_valid()/serializer.update() set the supplied
\* fields on that in-memory instance ...
BookingUpdateBegin(r, user, method, b, data) ==
    /\ r \notin DOMAIN inflight
    /\ UpdateStatus(user, method, b, data) = 200
    /\ inflight' = [i \in DOMAIN inflight \cup {r} |->
                       IF i = r
                       THEN [id |-> b, observed |-> bookings[b],
                             instance |-> ApplyData(bookings[b], data)]
                       ELSE inflight[i]]
    /\ UNCHANGED <<listings, bookings, nextListing, nextBooking, reviews, nextReview>>

\* ... then instance.save() writes every column of the instance by primary key,
\* whatever the row holds by now (no transaction, no select_for_update, no condition)
BookingUpdateSave(r) ==
    /\ r \in DOMAIN inflight
    /\ bookings' = [i \in DOMAIN bookings \cup {inflight[r].id} |->
                       IF i = inflight[r].id THEN inflight[r].instance ELSE bookings[i]]
    /\ inflight' = [i \in DOMAIN inflight \ {r} |-> inflight[i]]
    /\ UNCHANGED <<listings, nextListing, nextBooking, reviews, nextReview>>

\* BookingViewSet.destroy (DestroyModelMixin): status of the response
DestroyStatus(user, b) ==
    IF BookingAccess(user, "DELETE", b) # 0 THEN BookingAccess(user, "DELETE", b)
    ELSE 204

\* DELETE /bookings/{id}/ answered 204; perform_destroy: instance.delete()
BookingDestroy(user, b) ==
    /\ DestroyStatus(user, b) = 204
    /\ bookings' = [i \in DOMAIN bookings \ {b} |-> bookings[i]]
    /\ UNCHANGED <<listings, nextListing, nextBooking, inflight, reviews, nextReview>>

\* ListingSerializer.validate_max_guests
validate_max_guests(value) == value > 0

\* POST /listings/ answered 201; perform_create: serializer.save(host=request.user)
ListingCreate(user, max_guests) ==
    /\ validate_max_guests(max_guests)
    /\ listings' = [i \in DOMAIN listings \cup {nextListing} |->
                       IF i = nextListing
                       THEN [host |-> user, max_guests |-> max_guests, is_active |-> TRUE]
                       ELSE listings[i]]
    /\ nextListing' = nextListing + 1
    /\ UNCHANGED <<bookings, nextBooking, inflight, reviews, nextReview>>

\* get_object() over Listing.objects.filter(is_active=True), then IsOwnerOrReadOnly
ListingAccess(user, method, l) ==
    IF l \notin DOMAIN listings \/ ~listings[l].is_active THEN 404
    ELSE IF ~IsOwnerOrReadOnly(user, method, listings[l]) THEN 403
    ELSE 0

\* PUT/PATCH /listings/{id}/ answered 200, changing max_guests
ListingUpdate(user, l, max_guests) ==
    /\ ListingAccess(user, "PUT", l) = 0
    /\ validate_max_guests(max_guests)
    /\ listings' = [listings EXCEPT ![l].max_guests = max_guests]
    /\ UNCHANGED <<bookings, nextListing, nextBooking, inflight, reviews, nextReview>>

\* DELETE /listings/{id}/ answered 204: instance.delete(), cascading to its bookings
ListingDestroy(user, l) ==
    /\ ListingAccess(user, "DELETE", l) = 0
    /\ listings' = [i \in DOMAIN listings \ {l} |-> listings[i]]
    /\ bookings' = CascadeListing(l)
    /\ reviews' = CascadeListingReviews(l)
    /\ UNCHANGED <<nextListing, nextBooking, inflight, nextReview>>

\* POST /reviews/ answered 201; perform_create: serializer.save(reviewer=request.user).
\* The serializer has no uniqueness validator (reviewer is read-only), so a second
\* review of the same listing by the same user fails in the INSERT
ReviewCreate(user, data) ==
    LET row == [listing |-> data.listing, reviewer |-> user, rating |-> data.rating,
                is_active |-> TRUE]
    IN  /\ review_is_valid(data, FALSE)
        /\ unique_together(nextReview, row)
        /\ reviews' = [i \in DOMAIN reviews \cup {nextReview} |->
                          IF i = nextReview THEN row ELSE reviews[i]]
        /\ nextReview' = nextReview + 1
        /\ UNCHANGED <<listings, bookings, nextListing, nextBooking, inflight>>

\* get_object() over Review.objects.filter(is_active=True), then IsOwnerOrReadOnly
ReviewAccess(user, method, id) ==
    IF id \notin DOMAIN reviews \/ ~reviews[id].is_active THEN 404
    ELSE IF ~IsOwnerOrReadOnly_Review(user, method, reviews[id]) THEN 403
    ELSE 0

\* PUT or PATCH /reviews/{id}/ answered 200; perform_update: serializer.save(), whose
\* UPDATE the unique constraint can refuse
ReviewUpdate(user, method, id, data) ==
    /\ ReviewAccess(user, method, id) = 0
    /\ review_is_valid(data, method = "PATCH")
    /\ unique_together(id, ApplyReviewData(reviews[id], data))
    /\ reviews' = [reviews EXCEPT ![id] = ApplyReviewData(@, data)]
    /\ UNCHANGED <<listings, bookings, nextListing, nextBooking, inflight, nextReview>>

\* The same handler as the database sees it, in its two statements. First
\* get_object() SELECTs the row and is_valid()/serializer.update() set the supplied
\* fields on that in-memory instance ...
ReviewUpdateBegin(r, user, method, id, data) ==
    /\ r \notin DOMAIN inflight
    /\ ReviewAccess(user, method, id) = 0
    /\ review_is_valid(data, method = "PATCH")
    /\ inflight' = [i \in DOMAIN inflight \cup {r} |->
                       IF i = r
                       THEN [id |-> id, instance |-> ApplyReviewData(reviews[id], data)]
                       ELSE inflight[i]]
    /\ UNCHANGED <<listings, bookings, nextListing, nextBooking, reviews, nextReview>>

\* ... then instance.save() writes every column of the instance by primary key. The
\* database checks the write against the table as it is by now: a listing deleted
\* meanwhile or a (listing, reviewer) pair taken meanwhile raises IntegrityError and
\* nothing is written
ReviewUpdateSave(r) ==
    /\ r \in DOMAIN inflight
    /\ reviews' =
          IF /\ inflight[r].instance.listing \in DOMAIN listings
             /\ unique_together(inflight[r].id, inflight[r].instance)
          THEN [i \in DOMAIN reviews \cup {inflight[r].id} |->
                   IF i = inflight[r].id THEN inflight[r].instance ELSE reviews[i]]
          ELSE reviews
    /\ inflight' = [i \in DOMAIN inflight \ {r} |-> inflight[i]]
    /\ UNCHANGED <<listings, bookings, nextListing, nextBooking, nextReview>>

\* DELETE /reviews/{id}/ answered 204; perform_destroy: instance.delete()
ReviewDestroy(user, id) ==
    /\ ReviewAccess(user, "DELETE", id) = 0
    /\ reviews' = [i \in DOMAIN reviews \ {id} |-> reviews[i]]
    /\ UNCHANGED <<listings, bookings, nextListing, nextBooking, inflight, nextReview>>

\* ------------------------------------------------------------------ admin.py

\* ReviewAdmin change form: every field of the row but its id is editable; the form
\* runs the model validators (rating 1..5), the foreign-key lookup and
\* validate_unique (unique_together) and saves
ReviewAdminChange(id, row) ==
    /\ id \in DOMAIN reviews
    /\ row.listing \in DOMAIN listings
    /\ row.rating >= MinRating /\ row.rating <= MaxRating
    /\ unique_together(id, row)
    /\ reviews' = [reviews EXCEPT ![id] = row]
    /\ UNCHANGED <<listings, bookings, nextListing, nextBooking, inflight, nextReview>>

\* ListingAdmin change form: its fieldsets make host, is_active and max_guests
\* editable; the form runs the model validators (max_guests at least 1) and saves
ListingAdminChange(l, host, max_guests, is_active) ==
    /\ l \in DOMAIN listings
    /\ max_guests >= 1
    /\ listings' = [listings EXCEPT ![l] = [host |-> host, max_guests |-> max_guests,
                                           is_active |-> is_active]]
    /\ UNCHANGED <<bookings, nextListing, nextBooking, inflight, reviews, nextReview>>

\* queryset.update(status=value): one unconditional UPDATE over the selected rows
QuerysetUpdateStatus(queryset, value) ==
    [i \in DOMAIN bookings |->
        IF i \in queryset THEN [bookings[i] EXCEPT !.status = value] ELSE bookings[i]]

\* the selections the admin change list can submit: at least one row
Selections == SUBSET (DOMAIN bookings) \ {{}}

\* BookingAdmin.mark_as_confirmed
mark_as_confirmed(queryset) ==
    /\ bookings' = QuerysetUpdateStatus(queryset, CONFIRMED)
    /\ UNCHANGED <<listings, nextListing, nextBooking, inflight, reviews, nextReview>>

\* BookingAdmin.mark_as_cancelled
mark_as_cancelled(queryset) ==
    /\ bookings' = QuerysetUpdateStatus(queryset, CANCELLED)
    /\ UNCHANGED <<listings, nextListing, nextBooking, inflight, reviews, nextReview>>

\* ------------------------------------------------------------------ specification

Init ==
    /\ listings = <<>>
    /\ bookings = <<>>
    /\ nextListing = 1
    /\ nextBooking = 1
    /\ inflight = <<>>
    /\ reviews = <<>>
    /\ nextReview = 1

\* the request bodies that pass is_valid() in the current state: the only ones a
\* create or a PUT can act on (any other body is answered 400 and changes nothing)
ValidFullData ==
    {data \in RequiredData : is_valid(data, FALSE)}
    \cup {data \in RequiredDataWithStatus : is_valid(data, FALSE)}

Next ==
    \/ /\ nextListing <= MaxListings
       /\ \E user \in Users, max_guests \in 0..MaxGuests : ListingCreate(user, max_guests)
    \/ \E user \in Users, l \in ListingIds, max_guests \in 0..MaxGuests :
          ListingUpdate(user, l, max_guests)
    \/ \E user \in Users, l \in ListingIds : ListingDestroy(user, l)
    \/ /\ nextBooking <= MaxBookings
       /\ \E user \in Users, data \in ValidFullData : BookingCreate(user, data)
    \/ /\ DOMAIN bookings # {}
       /\ \E data \in ValidFullData : \E user \in Users, b \in BookingIds :
             BookingUpdate(user, b, data)
    \/ \E user \in Users, b \in BookingIds, data \in PatchData :
          BookingPartialUpdate(user, b, data)
    \/ \E user \in Users, b \in BookingIds : BookingDestroy(user, b)
    \/ \E queryset \in Selections : mark_as_confirmed(queryset)
    \/ \E queryset \in Selections : mark_as_cancelled(queryset)

Spec == Init /\ [][Next]_vars

\* ------------------------------------------------------------------ concurrent updates

\* PATCH bodies that request a status change and nothing else
StatusData == {data \in PatchData : DOMAIN data = {"status"}}

\* A state of Spec: one listing of full capacity hosted by user 1 and one booking on
\* it, of any guest and in any status, and no request in flight
ConcInit ==
    /\ listings = [i \in {1} |-> [host |-> 1, max_guests |-> MaxGuests, is_active |-> TRUE]]
    /\ nextListing = 2
    /\ \E guest \in Users, status \in BookingStatus :
          bookings = [i \in {1} |->
                         [listing |-> 1, guest |-> guest, check_in_date |-> 1,
                          check_out_date |-> 2, num_guests |-> 1, total_price |-> 1,
                          status |-> status]]
    /\ nextBooking = 2
    /\ inflight = <<>>
    /\ reviews = <<>>
    /\ nextReview = 1

\* status changes of the booking API interleaved statement by statement, and the
\* admin's bulk actions
ConcNext ==
    \/ \E r \in RequestIds, user \in Users, b \in BookingIds, data \in StatusData :
          BookingUpdateBegin(r, user, "PATCH", b, data)
    \/ \E r \in RequestIds : BookingUpdateSave(r)
    \/ \E queryset \in Selections : mark_as_confirmed(queryset)
    \/ \E queryset \in Selections : mark_as_cancelled(queryset)

SpecConc == ConcInit /\ [][ConcNext]_vars

\* ------------------------------------------------------------------ listings taken offline

\* the listing and booking endpoints together with the admin's listing form, the one
\* place that can set is_active to False
AdminNext ==
    \/ /\ nextListing <= MaxListings
       /\ \E user \in Users, max_guests \in 0..MaxGuests : ListingCreate(user, max_guests)
    \/ \E l \in ListingIds, host \in Users, max_guests \in 0..MaxGuests,
          is_active \in BOOLEAN : ListingAdminChange(l, host, max_guests, is_active)
    \/ \E user \in Users, l \in ListingIds, max_guests \in 0..MaxGuests :
          ListingUpdate(user, l, max_guests)
    \/ \E user \in Users, l \in ListingIds : ListingDestroy(user, l)
    \/ /\ nextBooking <= MaxBookings
       /\ \E user \in Users, data \in ValidFullData : BookingCreate(user, data)
    \/ \E user \in Users, b \in BookingIds : BookingDestroy(user, b)

SpecAdmin == Init /\ [][AdminNext]_vars


\* ------------------------------------------------------------------ reviews

\* every listing a review can name exists, is active and is hosted by user 1; no
\* review yet
ReviewInit ==
    /\ listings = [i \in ReviewListingIds |->
                      [host |-> 1, max_guests |-> MaxGuests, is_active |-> TRUE]]
    /\ nextListing = MaxReviewListings + 1
    /\ bookings = <<>>
    /\ nextBooking = 1
    /\ inflight = <<>>
    /\ reviews = <<>>
    /\ nextReview = 1

\* the review endpoints, the admin's review form and the deletion of listings
ReviewNext ==
    \/ /\ nextReview <= MaxReviews
       /\ \E user \in Reviewers, data \in ReviewData : ReviewCreate(user, data)
    \/ \E user \in Reviewers, id \in ReviewIds, data \in ReviewData :
          ReviewUpdate(user, "PUT", id, data)
    \/ \E user \in Reviewers, id \in ReviewIds, data \in ReviewPatchData :
          ReviewUpdate(user, "PATCH", id, data)
    \/ \E user \in Reviewers, id \in ReviewIds : ReviewDestroy(user, id)
    \/ \E id \in ReviewIds :
          \E row \in [listing : ReviewListingIds, reviewer : Reviewers,
                       rating : RatingInputs, is_active : BOOLEAN] :
             ReviewAdminChange(id, row)
    \/ \E user \in Users, l \in ReviewListingIds : ListingDestroy(user, l)

SpecReview == ReviewInit /\ [][ReviewNext]_vars

\* ------------------------------------------------------------------ concurrent reviews

\* request bodies and admin form rows whose rating is the lowest one or just below it
ConcReviewData == {d \in ReviewData : d.rating <= MinRating}
ConcReviewPatchData ==
    {d \in ReviewPatchData : "rating" \in DOMAIN d => d.rating <= MinRating}
ConcReviewRows ==
    [listing : ReviewListingIds, reviewer : Reviewers, rating : {MinRating},
     is_active : BOOLEAN]

\* the review endpoints with updates interleaved statement by statement, the admin's
\* review form and the deletion of listings
ReviewConcNext ==
    \/ /\ nextReview <= MaxReviews
       /\ \E user \in Reviewers, data \in ConcReviewData : ReviewCreate(user, data)
    \/ \E r \in RequestIds, user \in Reviewers, id \in ReviewIds, data \in ConcReviewData :
          ReviewUpdateBegin(r, user, "PUT", id, data)
    \/ \E r \in RequestIds, user \in Reviewers, id \in ReviewIds,
          data \in ConcReviewPatchData : ReviewUpdateBegin(r, user, "PATCH", id, data)
    \/ \E r \in RequestIds : ReviewUpdateSave(r)
    \/ \E user \in Reviewers, id \in ReviewIds : ReviewDestroy(user, id)
    \/ \E id \in ReviewIds, row \in ConcReviewRows : ReviewAdminChange(id, row)
    \/ \E user \in Users, l \in ReviewListingIds : ListingDestroy(user, l)

SpecReviewConc == ReviewInit /\ [][ReviewConcNext]_vars

\* ------------------------------------------------------------------ properties

\* the nights a row occupies: the half-open range [check_in_date, check_out_date)
Nights(row) == {d \in Dates : row.check_in_date <= d /\ d < row.check_out_date}

\* a booking that blocks its nights: Pending or Confirmed
Blocking(row) == row.status \in {PENDING, CONFIRMED}

\* the bookings other than `except` that block a night of `row` on row's listing
Conflicts(row, except) ==
    {i \in DOMAIN bookings \ except :
        /\ bookings[i].listing = row.listing
        /\ Blocking(bookings[i])
        /\ Nights(bookings[i]) \cap Nights(row) # {}}

\* a request body that passes every check of a booking request but the availability
\* one: the listing exists, the range is not empty, 1 <= guests <= capacity, price > 0
WellFormed(data) ==
    /\ data.listing \in DOMAIN listings
    /\ data.check_in_date < data.check_out_date
    /\ data.num_guests >= 1
    /\ data.num_guests <= listings[data.listing].max_guests
    /\ data.total_price > 0

\* the status changes the booking lifecycle allows
AllowedTransitions ==
    {<<PENDING, CONFIRMED>>, <<PENDING, CANCELLED>>,
     <<CONFIRMED, CANCELLED>>, <<CONFIRMED, COMPLETED>>}

\* the bookings stored before and after a step
Kept == DOMAIN bookings \cap DOMAIN bookings'

\* C1: no two distinct stored bookings of one listing are both Pending or Confirmed
\* and share a night of their half-open ranges.
C1_NoDoubleBooking ==
    \A b1 \in DOMAIN bookings, b2 \in DOMAIN bookings :
        (/\ b1 # b2
         /\ bookings[b1].listing = bookings[b2].listing
         /\ Blocking(bookings[b1])
         /\ Blocking(bookings[b2]))
        => Nights(bookings[b1]) \cap Nights(bookings[b2]) = {}

\* C2: a booking request that is otherwise well formed is refused exactly when its
\* range shares a night with a Pending or Confirmed booking of the listing; a range
\* that only touches such a booking at a boundary date shares no night and is accepted.
C2_RejectedIffOverlap ==
    \A user \in Users, data \in FullData :
        WellFormed(data) =>
            ((CreateStatus(user, data) = 400) <=> (Conflicts(data, {}) # {}))

\* C3: every change of a stored booking's status is one of the four allowed rows;
\* any other requested change leaves the status as it was.
C3_OnlyAllowedTransitions ==
    [][\A b \in Kept :
          bookings'[b].status # bookings[b].status =>
              <<bookings[b].status, bookings'[b].status>> \in AllowedTransitions]_vars

\* the body of a request to confirm a booking
ConfirmData == [status |-> CONFIRMED]

\* C4: the request to confirm a Pending booking is answered 200, and takes effect,
\* exactly when the host of the booking's listing makes it; from anyone else,
\* the booking's guest included, it is refused.
C4_ConfirmIffHost ==
    \A b \in DOMAIN bookings, user \in Users :
        bookings[b].status = PENDING =>
            ((UpdateStatus(user, "PATCH", b, ConfirmData) = 200)
                <=> (user = listings[bookings[b].listing].host))

\* C5: every stored booking has check-out after check-in, no more guests than its
\* listing's max_guests, and a total price above zero.
C5_BookingInvariants ==
    \A b \in DOMAIN bookings :
        /\ bookings[b].check_out_date > bookings[b].check_in_date
        /\ bookings[b].num_guests <= listings[bookings[b].listing].max_guests
        /\ bookings[b].total_price > 0

\* C6: the booking a create request stores is Pending and its guest is the requester,
\* whatever the request body holds.
C6_CreatedPendingByRequester ==
    [][\A user \in Users, data \in FullData :
          BookingCreate(user, data) =>
              /\ bookings'[nextBooking].status = PENDING
              /\ bookings'[nextBooking].guest = user]_vars

\* the fields of a booking other than status
FrameFields == {"listing", "guest", "check_in_date", "check_out_date", "num_guests"}

FrameOf(row) == [f \in FrameFields |-> row[f]]

OtherWriters(b) ==
    {user \in Users \ {bookings[b].guest} :
        \E method \in {"PUT", "PATCH"} : BookingAccess(user, method, b) = 0}

C8_NeverDeleted ==
    [][DOMAIN bookings \subseteq DOMAIN bookings']_vars

\* C9: the write of a requested status change takes effect only if the booking still
\* has the status the request observed; on a stale observation it changes nothing.
C9_CompareAndSwap ==
    [][\A r \in DOMAIN inflight :
          (/\ r \notin DOMAIN inflight'
           /\ inflight[r].instance.status # inflight[r].observed.status
           /\ inflight[r].id \in Kept
           /\ bookings'[inflight[r].id].status # bookings[inflight[r].id].status)
          => bookings[inflight[r].id].status = inflight[r].observed.status]_vars

\* the request bodies for the listing and range of row, with any guest count, price
\* and status
RequestsFor(row) ==
    {[listing |-> row.listing, check_in_date |-> row.check_in_date,
      check_out_date |-> row.check_out_date, num_guests |-> n, total_price |-> p] :
        n \in 0..MaxGuests, p \in 0..MaxPrice}
    \cup
    {[listing |-> row.listing, check_in_date |-> row.check_in_date,
      check_out_date |-> row.check_out_date, num_guests |-> n, total_price |-> p,
      status |-> st] :
        n \in 0..MaxGuests, p \in 0..MaxPrice, st \in BookingStatus}

\* every well-formed request for the listing and range of row, by any user, is accepted
RangeBookable(row) ==
    \A user \in Users, data \in RequestsFor(row) :
        WellFormed(data) => CreateStatus(user, data) = 201

C11_CreatedOnActiveListing ==
    [][\A b \in DOMAIN bookings' \ DOMAIN bookings :
          /\ bookings'[b].listing \in DOMAIN listings
          /\ listings[bookings'[b].listing].is_active]_vars

\* the read paths: booking b is in the response that user gets
ReadableInList(user, b) == b \in BookingList(user)
ReadableInDetail(user, b) == RetrieveStatus(user, b) = 200
ReadableInListingAction(user, b) ==
    \E l \in ListingIds : ListingViewSet_bookings(user, l) = 200 /\ b \in listing_bookings(l)
ReadableInListingView(user, b) ==
    \E l \in ListingIds : ListingBookingsView_get(user, l) = 200 /\ b \in listing_bookings(l)

GuestOrHost(user, b) ==
    user = bookings[b].guest \/ user = listings[bookings[b].listing].host

\* C12: on every read path (booking list, booking detail, the two per-listing
\* bookings endpoints) a booking is readable by a user exactly when the user is its
\* guest or the host of its listing
C12_ReadableIffGuestOrHost ==
    \A user \in Users, b \in DOMAIN bookings :
        /\ ReadableInList(user, b) <=> GuestOrHost(user, b)
        /\ ReadableInDetail(user, b) <=> GuestOrHost(user, b)
        /\ ReadableInListingAction(user, b) <=> GuestOrHost(user, b)
        /\ ReadableInListingView(user, b) <=> GuestOrHost(user, b)

\* C12 as the code has it: the booking list and the booking detail show a booking
\* exactly to its guest and to the host of its listing; the per-listing endpoints
\* show it exactly to the host of its listing, and only while that listing is active
C12_ReadPaths ==
    \A user \in Users, b \in DOMAIN bookings :
        /\ ReadableInList(user, b) <=> GuestOrHost(user, b)
        /\ ReadableInDetail(user, b) <=> GuestOrHost(user, b)
        /\ ReadableInListingAction(user, b) <=>
              /\ user = listings[bookings[b].listing].host
              /\ listings[bookings[b].listing].is_active
        /\ ReadableInListingView(user, b) <=>
              /\ user = listings[bookings[b].listing].host
              /\ listings[bookings[b].listing].is_active

\* a booking whose guest is not the host, on an active listing: the guest reads it in
\* the booking detail and is refused by the per-listing endpoint, which shows it to
\* the host
C12_Witness ==
    \E b \in DOMAIN bookings :
        LET guest == bookings[b].guest
            host == listings[bookings[b].listing].host
        IN  /\ guest # host
            /\ RetrieveStatus(guest, b) = 200
            /\ RetrieveStatus(host, b) = 200
            /\ ListingViewSet_bookings(guest, bookings[b].listing) = 403
            /\ ListingBookingsView_get(host, bookings[b].listing) = 200

\* C13: for every listing, review_count is the number of its reviews with
\* is_active true and average_rating is their mean rating to the nearest hundredth;
\* with no active review both are 0. Reviews that are not active count in neither
C13_RatingSummary ==
    \A l \in DOMAIN listings :
        LET active == {i \in DOMAIN reviews : reviews[i].listing = l /\ reviews[i].is_active}
            n == Cardinality(active)
            diff == 100 * SumRatings(active) - n * average_rating(l)
        IN  /\ review_count(l) = n
            /\ n = 0 => average_rating(l) = 0
            /\ n > 0 => 2 * diff <= n /\ -2 * diff <= n

\* a listing with two active reviews of different ratings and a deactivated one whose
\* rating is above both: the summary is the mean of the two
C13_Witness ==
    \E l \in DOMAIN listings : \E i, j, k \in DOMAIN reviews :
        /\ reviews[i].listing = l /\ reviews[j].listing = l /\ reviews[k].listing = l
        /\ reviews[i].is_active /\ reviews[j].is_active /\ ~reviews[k].is_active
        /\ reviews[i].rating < reviews[j].rating /\ reviews[j].rating < reviews[k].rating
        /\ review_count(l) = 2
        /\ 2 * average_rating(l) = 100 * (reviews[i].rating + reviews[j].rating)

\* C14: no two reviews have the same listing and the same reviewer
C14_OneReviewPerPair ==
    \A i, j \in DOMAIN reviews :
        i # j => ~(reviews[i].listing = reviews[j].listing
                   /\ reviews[i].reviewer = reviews[j].reviewer)

\* a reviewer with reviews of two listings: the update that would move one of them
\* onto the listing of the other is refused by the constraint
C14_Witness ==
    \E i, j \in DOMAIN reviews :
        /\ i # j
        /\ reviews[i].reviewer = reviews[j].reviewer
        /\ reviews[i].listing # reviews[j].listing
        /\ ReviewAccess(reviews[i].reviewer, "PATCH", i) = 0
        /\ ~unique_together(i, ApplyReviewData(reviews[i], [listing |-> reviews[j].listing]))

\* the listings that a booking or a review refers to
Referenced ==
    {bookings[b].listing : b \in DOMAIN bookings}
    \cup {reviews[i].listing : i \in DOMAIN reviews}

\* C15: no step removes the row of a listing that a booking or a review refers to
C15_ReferencedListingKept ==
    [][\A l \in Referenced : l \in DOMAIN listings']_vars

\* the users whose PUT, PATCH or DELETE of booking b the booking API carries out,
\* for some request body
Writers(b) ==
    {user \in Users :
        \/ DestroyStatus(user, b) = 204
        \/ \E data \in ValidFullData : UpdateStatus(user, "PUT", b, data) = 200
        \/ \E data \in PatchData : UpdateStatus(user, "PATCH", b, data) = 200}

\* C16: the booking API carries out an update or a delete of a booking for its guest
\* only (for the host who is not the guest and for anyone else the request is refused
\* and the booking stays as it is), and no step changes the guest of a stored booking
C16_OnlyGuestWrites ==
    /\ [](\A b \in DOMAIN bookings : Writers(b) \subseteq {bookings[b].guest})
    /\ [][\A b \in Kept : bookings'[b].guest = bookings[b].guest]_vars

\* a booking of a guest who is not the host, after the guest's PATCH changed its
\* dates: the guest's update and delete go through, the host's are answered 403
C16_Witness ==
    \E b \in DOMAIN bookings :
        LET guest == bookings[b].guest
            host == listings[bookings[b].listing].host
        IN  /\ guest # host
            /\ bookings[b].check_in_date >= bookings[b].check_out_date
            /\ UpdateStatus(guest, "PATCH", b, [status |-> CANCELLED]) = 200
            /\ DestroyStatus(guest, b) = 204
            /\ UpdateStatus(host, "PATCH", b, [status |-> CANCELLED]) = 403
            /\ DestroyStatus(host, b) = 403

====
